---- MODULE Spec2Model ----
(***************************************************************************)
(* A model of streamlit_app.py: the upload, the sidebar selection of X, of *)
(* the time derivation, of the Y columns and of the reduction, the         *)
(* construction of the grouping key, the aggregation, the ordering of the  *)
(* aggregated view and the range filter.  One action is one interaction of *)
(* the user followed by the complete rerun of the script.                  *)
(***************************************************************************)
EXTENDS Integers, Sequences, FiniteSets, TLC

\* Largest number of data rows of an uploaded CSV.
MaxRows == 3
\* Largest number of categories the user removes from the category filter.
MaxHidden == 1

(***************************************************************************)
(* Cells of the CSV.  A cell is missing ("na"), a text that is neither a   *)
(* number nor a timestamp ("word", v its one character), a number below    *)
(* 1000 ("num", v its value) or an ISO timestamp ("time", v the hours      *)
(* since 1970-01-01T00).  Strings are sequences of character codes.        *)
(***************************************************************************)
Na == [k |-> "na", v |-> 0]
Word(c) == [k |-> "word", v |-> c]
Num(n) == [k |-> "num", v |-> n]

\* Days since 1970-01-01 of a calendar date (proleptic Gregorian).
DaysFromCivil(y, m, d) ==
    LET yy  == IF m <= 2 THEN y - 1 ELSE y
        era == yy \div 400
        yoe == yy - era * 400
        mp  == IF m > 2 THEN m - 3 ELSE m + 9
        doy == (153 * mp + 2) \div 5 + d - 1
        doe == yoe * 365 + yoe \div 4 - yoe \div 100 + doy
    IN  era * 146097 + doe - 719468

\* The calendar date <<year, month, day>> of a day number.
CivilFromDays(z0) ==
    LET z   == z0 + 719468
        era == z \div 146097
        doe == z - era * 146097
        yoe == (doe - doe \div 1460 + doe \div 36524 - doe \div 146096) \div 365
        doy == doe - (365 * yoe + yoe \div 4 - yoe \div 100)
        mp  == (5 * doy + 2) \div 153
        d   == doy - (153 * mp + 2) \div 5 + 1
        m   == IF mp < 10 THEN mp + 3 ELSE mp - 9
        y   == yoe + era * 400 + (IF m <= 2 THEN 1 ELSE 0)
    IN  <<y, m, d>>

Time(y, m, d, h) == [k |-> "time", v |-> DaysFromCivil(y, m, d) * 24 + h]

\* The columns of the uploaded table, in file order.
Columns == <<"ts", "category", "amount">>
ColumnSet == {Columns[i] : i \in 1..Len(Columns)}

\* The rows a CSV is made of: "B" before "9" before "10", two timestamps
\* of January in different years (a Tuesday at 9 before a Monday at 8) and
\* one of February, and a row with no timestamp and no amount.
RowDomain ==
    { [ts |-> Time(2024, 1, 2, 9), category |-> Word(66), amount |-> Num(5)],
      [ts |-> Na,                  category |-> Word(65), amount |-> Na],
      [ts |-> Time(2023, 1, 2, 8), category |-> Num(9),   amount |-> Num(3)],
      [ts |-> Time(2024, 2, 5, 8), category |-> Num(10),  amount |-> Num(5)] }

\* The tables uploaded: up to MaxRows rows, no row twice.
Tables ==
    {t \in UNION {[1..n -> RowDomain] : n \in 0..MaxRows} :
        \A i \in 1..Len(t), j \in 1..Len(t) : t[i] = t[j] => i = j}

\* read_csv: a column of numbers is int64, of numbers and missing cells
\* float64, anything else is kept as text.
ColDtype(t, c) ==
    IF \E i \in 1..Len(t) : t[i][c].k \in {"word", "time"} THEN "object"
    ELSE IF \E i \in 1..Len(t) : t[i][c].k = "na" THEN "float64"
    ELSE "int64"

(***************************************************************************)
(* Conversions                                                             *)
(***************************************************************************)
RECURSIVE Digits(_)
Digits(n) == IF n < 10 THEN <<48 + n>> ELSE Digits(n \div 10) \o <<48 + (n % 10)>>

Pad2(n) == <<48 + (n \div 10), 48 + (n % 10)>>

\* The text of a timestamp cell, yyyy-mm-ddThh:00:00.
IsoOf(c, h) ==
    Digits(c[1]) \o <<45>> \o Pad2(c[2]) \o <<45>> \o Pad2(c[3])
    \o <<84>> \o Pad2(h) \o <<58, 48, 48, 58, 48, 48>>
IsoText(v) == IsoOf(CivilFromDays(v \div 24), v % 24)

\* series.astype("string") on one cell of column c (never called on a
\* missing cell): a float64 column prints its numbers with ".0".
AsString(t, c, i) ==
    LET cell == t[i][c]
    IN  CASE cell.k = "word" -> <<cell.v>>
          [] cell.k = "time" -> IsoText(cell.v)
          [] OTHER -> IF ColDtype(t, c) = "float64"
                      THEN Digits(cell.v) \o <<46, 48>>
                      ELSE Digits(cell.v)

\* pd.to_numeric(errors="coerce") on one cell: its value, or missing.
NumericOk(t, c, i) == t[i][c].k = "num"
NumericVal(t, c, i) == t[i][c].v

\* pd.to_datetime(errors="coerce") on one cell.  A numeric column is read
\* as nanoseconds since the epoch (hour 0 of 1970-01-01 for every number
\* modelled); in a text column only timestamps parse, a number below 1000
\* does not look like a date.
DatetimeOk(t, c, i) ==
    IF ColDtype(t, c) = "object" THEN t[i][c].k = "time" ELSE t[i][c].k = "num"
DatetimeVal(t, c, i) ==
    IF ColDtype(t, c) = "object" THEN t[i][c].v ELSE 0

\* 2 * mean(notna) > 1, that is mean > 0.5, over all the rows of the column.
can_parse_datetime(t, c) ==
    2 * Cardinality({i \in 1..Len(t) : DatetimeOk(t, c, i)}) > Len(t)
is_numeric_like(t, c) ==
    2 * Cardinality({i \in 1..Len(t) : NumericOk(t, c, i)}) > Len(t)

DatetimeCandidates(t) == {c \in ColumnSet : can_parse_datetime(t, c)}
NumericCandidates(t) == {c \in ColumnSet : is_numeric_like(t, c)}

(***************************************************************************)
(* The grouping key                                                        *)
(***************************************************************************)
\* The options of the "time derivation" selectbox; "none" stands for
\* x_time_mode = None.
TimeModes == <<"hour", "date", "weekday", "month">>
TimeModeSet == {TimeModes[i] : i \in 1..Len(TimeModes)}

\* mapping.values(): the weekday labels, Monday first, each a string of one
\* character, and the categories of the ordered categorical key.
WeekdayLabels ==
    << <<19968>>, <<20108>>, <<19977>>, <<22235>>, <<20116>>, <<20845>>, <<26085>> >>

\* ts.dt.hour, ts.dt.date (as a day number), ts.dt.weekday, ts.dt.month.
HourOf(v) == v % 24
DateOf(v) == v \div 24
WeekdayOf(v) == ((v \div 24) + 3) % 7
MonthOf(v) == CivilFromDays(v \div 24)[2]
YearOf(v) == CivilFromDays(v \div 24)[1]

\* Whether row i has a key (df["_X_key"] is not missing).
XKeyOk(t, x, mode, i) ==
    IF mode = "none" THEN t[i][x].k # "na" ELSE DatetimeOk(t, x, i)

\* A month key that keeps the year apart.
MonthKeyWithYear(v) == YearOf(v) * 12 + MonthOf(v)

\* ts.dt.month: the month number, 1 to 12.
MonthKey(v) == MonthOf(v)

\* The key derived from a parsed timestamp.
TimeKey(mode, v) ==
    CASE mode = "hour"    -> HourOf(v)
      [] mode = "date"    -> DateOf(v)
      [] mode = "weekday" -> WeekdayLabels[WeekdayOf(v) + 1]
      [] OTHER            -> MonthKey(v)

\* df["_X_key"] of row i.
XKey(t, x, mode, i) ==
    IF mode = "none" THEN AsString(t, x, i) ELSE TimeKey(mode, DatetimeVal(t, x, i))

\* The column df["_X_key"]: <<key>> for a row that has one, <<>> for a
\* missing key.
KeyColumn(t, x, mode) ==
    [i \in 1..Len(t) |-> IF XKeyOk(t, x, mode, i) THEN <<XKey(t, x, mode, i)>> ELSE <<>>]

\* The dtype of the key column.
KeyDtype(t, x, mode) ==
    CASE mode \in {"hour", "month"} ->
             IF \A i \in 1..Len(t) : DatetimeOk(t, x, i) THEN "int32" ELSE "float64"
      [] mode = "date"    -> "object"
      [] mode = "weekday" -> "category"
      [] OTHER            -> "string"

is_numeric_dtype(d) == d \in {"int32", "int64", "float64"}

(***************************************************************************)
(* Aggregation                                                             *)
(***************************************************************************)
YSet(ys) == {ys[i] : i \in 1..Len(ys)}

\* The columns whose missing values drop a row: ["_X_key"] + y_cols.
\* The key is always among them; this is the part taken from y_cols.
DropnaSubset(ys) == YSet(ys)

\* The rows df.dropna(subset=["_X_key"] + y_cols) keeps, in file order.
Kept(t, ys, kc) ==
    SelectSeq([i \in 1..Len(t) |-> i],
              LAMBDA i : /\ Len(kc[i]) = 1
                         /\ \A c \in DropnaSubset(ys) : NumericOk(t, c, i))

FrameOf(kc, kept) == [j \in 1..Len(kept) |-> [row |-> kept[j], key |-> kc[kept[j]][1]]]

\* The frame after dropna: the kept rows with their "_X_key".
Dropna(t, ys, kc) == FrameOf(kc, Kept(t, ys, kc))

FrameKeys(frame) == {frame[j].key : j \in 1..Len(frame)}

\* Order of strings by character code, as pandas sorts a string key.
LexLeq(a, b) ==
    \/ a = b
    \/ \E i \in 1..Len(b) :
          /\ \A j \in 1..(i - 1) : j <= Len(a) /\ a[j] = b[j]
          /\ (i > Len(a) \/ (i <= Len(a) /\ a[i] < b[i]))

MinInt(S) == CHOOSE m \in S : \A y \in S : m <= y
MinString(S) == CHOOSE m \in S : \A y \in S : LexLeq(m, y)

RECURSIVE SortInts(_)
IntsFrom(m, S) == <<m>> \o SortInts(S \ {m})
SortInts(S) == IF S = {} THEN <<>> ELSE IntsFrom(MinInt(S), S)

RECURSIVE SortStrings(_)
StringsFrom(m, S) == <<m>> \o SortStrings(S \ {m})
SortStrings(S) == IF S = {} THEN <<>> ELSE StringsFrom(MinString(S), S)

\* The group keys of df.groupby("_X_key"), in the order groupby gives them
\* (sort=True): the categories of a categorical key in category order, all
\* of them unless observed; any other key sorted ascending.
GroupKeys(present, mode, obs) ==
    CASE mode = "weekday" ->
             IF obs THEN SelectSeq(WeekdayLabels, LAMBDA k : k \in present)
             ELSE WeekdayLabels
      [] mode = "none"    -> SortStrings(present)
      [] OTHER            -> SortInts(present)

ValsOf(t, c, mine) == [j \in 1..Len(mine) |-> NumericVal(t, c, mine[j].row)]

\* The values of column c in the group of key k, in file order.
GroupVals(t, frame, c, k) == ValsOf(t, c, SelectSeq(frame, LAMBDA r : r.key = k))

\* A cell of the view: missing, or the fraction num / den in lowest terms.
NaN == [na |-> TRUE, num |-> 0, den |-> 1]

RECURSIVE Gcd(_, _)
Gcd(a, b) == IF b = 0 THEN a ELSE Gcd(b, a % b)

Lowest(n, d, g) ==
    IF g = 0 THEN [na |-> FALSE, num |-> 0, den |-> 1]
    ELSE [na |-> FALSE, num |-> n \div g, den |-> d \div g]

Frac(n, d) == Lowest(n, d, Gcd(n, d))

RECURSIVE SumSeq(_)
SumSeq(s) == IF s = <<>> THEN 0 ELSE Head(s) + SumSeq(Tail(s))

MinIndex(s) == CHOOSE j \in 1..Len(s) : \A i \in 1..Len(s) : s[j] <= s[i]
Without(s, j) == [i \in 1..(Len(s) - 1) |-> IF i < j THEN s[i] ELSE s[i + 1]]

RECURSIVE SortVals(_)
ValsFrom(j, s) == <<s[j]>> \o SortVals(Without(s, j))
SortVals(s) == IF s = <<>> THEN <<>> ELSE ValsFrom(MinIndex(s), s)

\* The reductions of the "aggregation" selectbox.
AggFns == {"sum", "mean", "median", "max", "min"}

ReduceSorted(fn, vals, n, sorted) ==
    CASE fn = "sum"    -> Frac(SumSeq(vals), 1)
      [] fn = "mean"   -> Frac(SumSeq(vals), n)
      [] fn = "median" -> IF n % 2 = 1 THEN Frac(sorted[(n + 1) \div 2], 1)
                          ELSE Frac(sorted[n \div 2] + sorted[n \div 2 + 1], 2)
      [] fn = "max"    -> Frac(sorted[n], 1)
      [] OTHER         -> Frac(sorted[1], 1)

\* grouped.agg(fn) on the values of one group: the sum of no value is 0,
\* every other reduction of no value is missing.
Reduce(fn, vals) ==
    IF Len(vals) = 0 THEN (IF fn = "sum" THEN Frac(0, 1) ELSE NaN)
    ELSE ReduceSorted(fn, vals, Len(vals), SortVals(vals))

\* grouped.agg(agg_map).reset_index(): one row per group key.
Aggregate(t, frame, keys, ys, agg) ==
    [g \in 1..Len(keys) |->
        [key   |-> keys[g],
         cells |-> [c \in YSet(ys) |-> Reduce(agg, GroupVals(t, frame, c, keys[g]))]]]

MinKeyIndex(view) ==
    CHOOSE j \in 1..Len(view) : \A i \in 1..Len(view) : view[j].key <= view[i].key

\* df_view.sort_values(x_col) on a numeric key column.
RECURSIVE sort_values(_)
RowsFrom(j, view) == <<view[j]>> \o sort_values(Without(view, j))
sort_values(view) == IF view = <<>> THEN <<>> ELSE RowsFrom(MinKeyIndex(view), view)

\* The sort after the aggregation: hour and month keys are sorted as
\* numbers, and so is any key column of a numeric dtype.
SortView(view, mode, dtype) ==
    IF mode \in {"hour", "month"} THEN sort_values(view)
    ELSE IF is_numeric_dtype(dtype) THEN sort_values(view)
    ELSE view

\* The aggregated view of the frame, grouped, reduced and sorted.
AggregatedView(t, frame, mode, dtype, ys, agg, obs) ==
    SortView(Aggregate(t, frame, GroupKeys(FrameKeys(frame), mode, obs), ys, agg),
             mode, dtype)

(***************************************************************************)
(* The range filter                                                        *)
(***************************************************************************)
\* unique_cnt <= 100 chooses the slider.
SliderMaxUnique == 100

ViewKeys(view) == {view[i].key : i \in 1..Len(view)}
MinOf(S) == CHOOSE m \in S : \A y \in S : m <= y
MaxOf(S) == CHOOSE m \in S : \A y \in S : m >= y

\* pd.unique(x_vals.astype("string")): the keys in view order.
Cats(view) == [i \in 1..Len(view) |-> view[i].key]

\* Which widget the sidebar shows for the key column: a date range, a
\* slider, two number inputs, a category multiselect, or none (an empty
\* date or numeric view).
FilterKind(view, mode, dtype) ==
    IF mode = "date" THEN (IF view # <<>> THEN "date" ELSE "none")
    ELSE IF is_numeric_dtype(dtype) THEN
        IF view = <<>> THEN "none"
        ELSE IF dtype \in {"int32", "int64"} /\ Cardinality(ViewKeys(view)) <= SliderMaxUnique
             THEN "slider" ELSE "number"
    ELSE "cats"

NoFilter == [kind |-> "none", id |-> <<>>, val |-> <<>>]

\* The widget in its default state: the whole range, every category.  id
\* holds the arguments that identify the widget from one run to the next.
RangeFilter(kind, r) == [kind |-> kind, id |-> r, val |-> r]

DefaultFilter(view, kind) ==
    CASE kind \in {"date", "slider", "number"} ->
             RangeFilter(kind, <<MinOf(ViewKeys(view)), MaxOf(ViewKeys(view))>>)
      [] kind = "cats" -> [kind |-> kind, id |-> Cats(view), val |-> ViewKeys(view)]
      [] OTHER -> NoFilter

KeepOrReset(prev, fresh) ==
    IF prev.kind = fresh.kind /\ fresh.kind # "none" /\ prev.id = fresh.id
    THEN prev ELSE fresh

\* The widget keeps the user's value while its arguments are unchanged.
WidgetState(view, kind, prev) == KeepOrReset(prev, DefaultFilter(view, kind))

\* A range that leaves its upper end out.
RangeMaskExclusive(key, lo, hi) == key >= lo /\ key < hi

\* (x_vals >= lo) & (x_vals <= hi)
RangeMask(key, lo, hi) == key >= lo /\ key <= hi

\* The mask of the filter on one key.
FilterMask(f, key) ==
    CASE f.kind = "date" -> IF Len(f.val) = 2 THEN RangeMask(key, f.val[1], f.val[2])
                            ELSE TRUE
      [] f.kind \in {"slider", "number"} -> RangeMask(key, f.val[1], f.val[2])
      [] f.kind = "cats" -> key \in f.val
      [] OTHER -> TRUE

\* df_view[mask]
ApplyFilter(view, f) == SelectSeq(view, LAMBDA r : FilterMask(f, r.key))

(***************************************************************************)
(* The session                                                             *)
(***************************************************************************)
VARIABLES
    up,                   \* whether a file is in the uploader
    raw,                  \* the table read from it
    observed,             \* groupby's default for "observed" in the pandas installed
    datetime_candidates,  \* the columns found time-like
    numeric_candidates,   \* the columns found numeric-like
    x_col,                \* the X selectbox
    x_time_mode,          \* the time derivation selectbox, "none" when not shown
    y_cols,               \* the Y multiselect, in the order of selection
    agg_fn,               \* the reduction selectbox
    flt,                  \* the range filter widget
    stage,                \* where the last run of the script ended
    df,                   \* the frame after dropna
    df_view,              \* the aggregated view, sorted
    df_filtered           \* the view after the range filter: what is charted and exported

vars == <<up, raw, observed, datetime_candidates, numeric_candidates, x_col,
          x_time_mode, y_cols, agg_fn, flt, stage, df, df_view, df_filtered>>

NoColumn == ""

\* Y options that forget to leave X out.
y_options_with_x(t, x) == NumericCandidates(t)

\* The Y options: the numeric-like columns other than X.
y_options(t, x) == NumericCandidates(t) \ {x}

\* A script that never stops for an empty Y selection.
NoYSelectedIgnored(ys) == FALSE

\* len(y_cols) == 0: the script stops before the aggregation.
NoYSelected(ys) == Len(ys) = 0

\* The time derivation shown for X: the first option when the selectbox
\* appears, the user's choice while it stays, None for an X not time-like.
ModeFor(t, x, prevMode) ==
    IF x \in DatetimeCandidates(t)
    THEN (IF prevMode # "none" THEN prevMode ELSE TimeModes[1])
    ELSE "none"

\* No sidebar widget is drawn and nothing is computed.
NothingShown ==
    /\ datetime_candidates' = {}
    /\ numeric_candidates' = {}
    /\ x_col' = NoColumn
    /\ x_time_mode' = "none"
    /\ y_cols' = <<>>
    /\ agg_fn' = "sum"
    /\ flt' = NoFilter
    /\ df' = <<>>
    /\ df_view' = <<>>
    /\ df_filtered' = <<>>

\* The end of a run that reaches the charts.
Show(frame, view, f) ==
    /\ stage' = "rendered"
    /\ df' = frame
    /\ df_view' = view
    /\ flt' = f
    /\ df_filtered' = ApplyFilter(view, f)

\* The sidebar's range filter on the aggregated view.
Filtered(frame, view, mode, dtype, prev) ==
    Show(frame, view, WidgetState(view, FilterKind(view, mode, dtype), prev))

\* The aggregation of the frame left by dropna.
Aggregated(t, frame, mode, dtype, ys, agg, prev) ==
    Filtered(frame, AggregatedView(t, frame, mode, dtype, ys, agg, observed),
             mode, dtype, prev)

\* One run of the script on the table t with the widgets at x, mode, ys, agg
\* and the filter widget last at prev.
Rerun(t, x, mode, ys, agg, prev) ==
    /\ up' = TRUE
    /\ raw' = t
    /\ UNCHANGED observed
    /\ IF Len(t) = 0
       THEN /\ stage' = "empty_table"
            /\ NothingShown
       ELSE /\ datetime_candidates' = DatetimeCandidates(t)
            /\ numeric_candidates' = NumericCandidates(t)
            /\ x_col' = x
            /\ x_time_mode' = mode
            /\ y_cols' = ys
            /\ agg_fn' = agg
            /\ IF NoYSelected(ys)
               THEN /\ stage' = "await_y"
                    /\ flt' = NoFilter
                    /\ df' = <<>>
                    /\ df_view' = <<>>
                    /\ df_filtered' = <<>>
               ELSE Aggregated(t, Dropna(t, ys, KeyColumn(t, x, mode)), mode,
                               KeyDtype(t, x, mode), ys, agg, prev)

Init ==
    /\ up = FALSE
    /\ raw = <<>>
    /\ observed \in BOOLEAN
    /\ datetime_candidates = {}
    /\ numeric_candidates = {}
    /\ x_col = NoColumn
    /\ x_time_mode = "none"
    /\ y_cols = <<>>
    /\ agg_fn = "sum"
    /\ flt = NoFilter
    /\ stage = "await_upload"
    /\ df = <<>>
    /\ df_view = <<>>
    /\ df_filtered = <<>>

\* The user puts a CSV in the uploader: every widget starts at its default.
Upload(t) ==
    /\ ~up
    /\ Rerun(t, Columns[1], ModeFor(t, Columns[1], "none"), <<>>, "sum", NoFilter)

\* The user clears the uploader: the script stops at "please upload".
RemoveFile ==
    /\ up
    /\ up' = FALSE
    /\ raw' = <<>>
    /\ stage' = "await_upload"
    /\ NothingShown
    /\ UNCHANGED observed

Shown == stage \in {"await_y", "rendered"}

\* The user picks another X: the Y multiselect of the new X starts empty.
SelectX(c) ==
    /\ Shown
    /\ c # x_col
    /\ Rerun(raw, c, ModeFor(raw, c, x_time_mode), <<>>, agg_fn, flt)

SelectTimeMode(m) ==
    /\ Shown
    /\ x_time_mode # "none"
    /\ m # x_time_mode
    /\ Rerun(raw, x_col, m, y_cols, agg_fn, flt)

Remove(ys, c) == SelectSeq(ys, LAMBDA y : y # c)

\* The user ticks or unticks one Y option.
ToggleY(c) ==
    /\ Shown
    /\ c \in y_options(raw, x_col)
    /\ Rerun(raw, x_col, x_time_mode,
             IF c \in YSet(y_cols) THEN Remove(y_cols, c) ELSE Append(y_cols, c),
             agg_fn, flt)

\* The reduction selectbox is disabled while no Y is selected.
SelectAgg(f) ==
    /\ Shown
    /\ Len(y_cols) # 0
    /\ f # agg_fn
    /\ Rerun(raw, x_col, x_time_mode, y_cols, f, flt)

SetFilter(val) == Rerun(raw, x_col, x_time_mode, y_cols, agg_fn, [flt EXCEPT !.val = val])

\* The user picks both ends of the date range.
SetDateRange(lo, hi) ==
    /\ stage = "rendered" /\ flt.kind = "date"
    /\ lo <= hi
    /\ SetFilter(<<lo, hi>>)

\* The user has picked only the first end: date_input returns one date.
SetDatePartial(d) ==
    /\ stage = "rendered" /\ flt.kind = "date"
    /\ SetFilter(<<d>>)

SetSlider(lo, hi) ==
    /\ stage = "rendered" /\ flt.kind = "slider"
    /\ lo <= hi
    /\ SetFilter(<<lo, hi>>)

SetNumberInputs(lo, hi) ==
    /\ stage = "rendered" /\ flt.kind = "number"
    /\ SetFilter(<<lo, hi>>)

\* The user removes a category from the multiselect, or puts it back.
ToggleCategory(c) ==
    /\ stage = "rendered" /\ flt.kind = "cats"
    /\ IF c \in flt.val
       THEN /\ Cardinality(ViewKeys(df_view) \ flt.val) < MaxHidden
            /\ SetFilter(flt.val \ {c})
       ELSE SetFilter(flt.val \cup {c})

Next ==
    \/ ~up /\ \E t \in Tables : Upload(t)
    \/ RemoveFile
    \/ \E c \in ColumnSet : SelectX(c)
    \/ \E m \in TimeModeSet : SelectTimeMode(m)
    \/ \E c \in ColumnSet : ToggleY(c)
    \/ \E f \in AggFns : SelectAgg(f)
    \/ \E lo \in ViewKeys(df_view), hi \in ViewKeys(df_view) : SetDateRange(lo, hi)
    \/ \E d \in ViewKeys(df_view) : SetDatePartial(d)
    \/ \E lo \in ViewKeys(df_view), hi \in ViewKeys(df_view) : SetSlider(lo, hi)
    \/ \E lo \in ViewKeys(df_view), hi \in ViewKeys(df_view) : SetNumberInputs(lo, hi)
    \/ \E c \in ViewKeys(df_view) : ToggleCategory(c)

Spec == Init /\ [][Next]_vars

(***************************************************************************)
(* Properties                                                              *)
(***************************************************************************)
Rendered == stage = "rendered"

\* The keys of a frame in the order in which each first occurs.
FirstSeen(frame) ==
    LET firsts == SelectSeq([j \in 1..Len(frame) |-> j],
                            LAMBDA j : \A h \in 1..(j - 1) : frame[h].key # frame[j].key)
    IN  [n \in 1..Len(firsts) |-> frame[firsts[n]].key]

\* C1: for an X that is not time-like (the key is X cast to string) the
\* rows of the aggregated view are in the order in which each key first
\* occurs in the source rows.
C1_FirstOccurrenceOrder ==
    (Rendered /\ x_time_mode = "none") => Cats(df_view) = FirstSeen(df)

\* The source rows that have a key.
KeyedRows == {i \in 1..Len(raw) : XKeyOk(raw, x_col, x_time_mode, i)}
KeyOfRow(i) == XKey(raw, x_col, x_time_mode, i)

\* C2: a group whose member rows all have a missing value for a selected Y
\* column is still a row of the aggregated view, with a missing cell for
\* that column.
C2_AllMissingGroupKept ==
    Rendered =>
        \A i \in KeyedRows : \A c \in YSet(y_cols) :
            (\A j \in KeyedRows : KeyOfRow(j) = KeyOfRow(i) => ~NumericOk(raw, c, j))
            => \E g \in 1..Len(df_view) :
                   df_view[g].key = KeyOfRow(i) /\ df_view[g].cells[c].na

\* C3: the rows that reach the groups are all the source rows but those
\* with a missing key, whatever their Y values.
C3_OnlyKeylessRowsDropped ==
    Rendered => Len(df) = Cardinality(KeyedRows)

IsNumberText(k) == Len(k) > 0 /\ \A i \in 1..Len(k) : k[i] \in 48..57

RECURSIVE NumberOf(_)
NumberOf(k) ==
    IF k = <<>> THEN 0 ELSE 10 * NumberOf(SubSeq(k, 1, Len(k) - 1)) + (k[Len(k)] - 48)

\* C4: when the key is numeric (X numeric-like and not derived, or an hour
\* or month key), adjacent rows of the aggregated view are in ascending
\* order of their keys compared as numbers.
C4_NumericKeysAscending ==
    Rendered =>
        /\ x_time_mode \in {"hour", "month"} =>
               \A g \in 1..(Len(df_view) - 1) : df_view[g].key <= df_view[g + 1].key
        /\ (x_time_mode = "none" /\ x_col \in numeric_candidates) =>
               \A g \in 1..(Len(df_view) - 1) :
                   (IsNumberText(df_view[g].key) /\ IsNumberText(df_view[g + 1].key))
                   => NumberOf(df_view[g].key) <= NumberOf(df_view[g + 1].key)

\* C5: for a weekday key the aggregated view has exactly the weekdays of
\* the grouped rows, one row each, Monday first.
C5_WeekdaysPresentInOrder ==
    (Rendered /\ x_time_mode = "weekday") =>
        Cats(df_view) = SelectSeq(WeekdayLabels, LAMBDA k : k \in FrameKeys(df))

\* Whether a key passes the filter the sidebar shows.
InFilter(k) ==
    CASE flt.kind \in {"slider", "number"} -> flt.val[1] <= k /\ k <= flt.val[2]
      [] flt.kind = "date" /\ Len(flt.val) = 2 -> flt.val[1] <= k /\ k <= flt.val[2]
      [] flt.kind = "cats" -> k \in flt.val
      [] OTHER -> TRUE

\* C6: the filtered view is the aggregated view's rows whose key passes the
\* filter, in the same order and with the same cells, and filtering it
\* again changes nothing.
C6_FilterKeepsPassingRows ==
    Rendered =>
        /\ df_filtered = SelectSeq(df_view, LAMBDA r : InFilter(r.key))
        /\ ApplyFilter(df_filtered, flt) = df_filtered

C6_Witness ==
    /\ Rendered
    /\ flt.kind \in {"slider", "number", "date"}
    /\ Len(flt.val) = 2
    /\ df_filtered # <<>>
    /\ Len(df_filtered) < Len(df_view)

SelectionValid ==
    /\ x_col \in ColumnSet
    /\ x_col \notin YSet(y_cols)
    /\ x_time_mode # "none" => x_col \in datetime_candidates

\* C7: every run that reaches the aggregation has a valid selection (X is a
\* column, Y does not hold X, a derivation mode only for a time-like X),
\* and every change of X empties the Y selection.
C7_SelectionValid ==
    [][/\ stage' = "rendered" => SelectionValid'
       /\ x_col' # x_col => y_cols' = <<>>]_vars

C7_Witness ==
    /\ Rendered
    /\ x_col \in numeric_candidates
    /\ x_col # Columns[1]
    /\ y_cols # <<>>

\* C8: with a table loaded and no Y selected the run stops before the
\* grouping: no frame, no aggregated view, no filtered view.
C8_EmptyYStops ==
    (up /\ raw # <<>> /\ y_cols = <<>>) =>
        /\ stage = "await_y"
        /\ df = <<>>
        /\ df_view = <<>>
        /\ df_filtered = <<>>
        /\ flt = NoFilter

C8_Witness ==
    /\ stage = "await_y"
    /\ x_time_mode = "weekday"
    /\ agg_fn = "median"

NonMissing(c) == {i \in 1..Len(raw) : raw[i][c].k # "na"}

\* C9: a column is time-like (numeric-like) exactly when more than half of
\* its non-missing cells parse as a timestamp (a number).
C9_MajorityOfNonMissing ==
    (up /\ raw # <<>>) =>
        \A c \in ColumnSet :
            /\ c \in datetime_candidates <=>
                   2 * Cardinality({i \in NonMissing(c) : DatetimeOk(raw, c, i)})
                       > Cardinality(NonMissing(c))
            /\ c \in numeric_candidates <=>
                   2 * Cardinality({i \in NonMissing(c) : NumericOk(raw, c, i)})
                       > Cardinality(NonMissing(c))

TimestampOf(r) == DatetimeVal(raw, x_col, r.row)

====
